---- MODULE Spec2Model ----
(***************************************************************************)
(* Model of simple-mcp-server.ts: the Bun HTTP transport (serve.fetch),    *)
(* the JSON-RPC dispatcher (handleMCPRequest), the three weather tools and *)
(* the upstream client (callWeatherAPI).                                   *)
(*                                                                         *)
(* JavaScript values are tagged records; every tag has its own payload     *)
(* field names so that values of different types can share a set.         *)
(***************************************************************************)
EXTENDS Integers, Sequences, FiniteSets, TLC

\* ------------------------------------------------------------------------
\* Bounds of the explored inputs
\* ------------------------------------------------------------------------
\* integer values of arguments.days are drawn from 0..MaxDaysArg
MaxDaysArg == 4
\* an upstream forecast payload carries 0..MaxForecastDays forecastday entries
MaxForecastDays == 2
\* an upstream search payload carries 0..MaxLocations matches
MaxLocations == 1

\* ------------------------------------------------------------------------
\* JavaScript / JSON values
\* ------------------------------------------------------------------------
Undef == [t |-> "undefined"]
Null == [t |-> "null"]
Str(s) == [t |-> "string", s |-> s]
\* a number int + frac/10; frac = 0 for an integer
Num(n) == [t |-> "number", int |-> n, frac |-> 0]
NumHalf(n) == [t |-> "number", int |-> n, frac |-> 5]
Bool(b) == [t |-> "boolean", b |-> b]
Arr == [t |-> "array"]

\* JavaScript ToBoolean
Truthy(v) ==
  CASE v.t = "undefined" -> FALSE
    [] v.t = "null" -> FALSE
    [] v.t = "string" -> v.s # ""
    [] v.t = "number" -> ~(v.int = 0 /\ v.frac = 0)
    [] v.t = "boolean" -> v.b
    [] v.t = "key" -> v.chars # <<>>
    [] OTHER -> TRUE

Digit(d) ==
  CASE d = 0 -> "0" [] d = 1 -> "1" [] d = 2 -> "2" [] d = 3 -> "3"
    [] d = 4 -> "4" [] d = 5 -> "5" [] d = 6 -> "6" [] d = 7 -> "7"
    [] d = 8 -> "8" [] d = 9 -> "9"

RECURSIVE NatToString(_)
NatToString(n) ==
  IF n < 10 THEN Digit(n) ELSE NatToString(n \div 10) \o Digit(n % 10)

\* value.toString() of a query parameter (strings and non-negative numbers)
toString(v) ==
  CASE v.t = "string" -> v.s
    [] v.t = "number" ->
         IF v.frac = 0 THEN NatToString(v.int)
         ELSE NatToString(v.int) \o "." \o NatToString(v.frac)
    [] OTHER -> "[object]"

\* ------------------------------------------------------------------------
\* Error codes
\* ------------------------------------------------------------------------
JSON_RPC_ERRORS ==
  [PARSE_ERROR |-> -32700, INVALID_REQUEST |-> -32600,
   METHOD_NOT_FOUND |-> -32601, INVALID_PARAMS |-> -32602,
   INTERNAL_ERROR |-> -32603, UNAUTHORIZED |-> -32001,
   FORBIDDEN |-> -32002, NOT_FOUND |-> -32003, RATE_LIMITED |-> -32004]

\* ------------------------------------------------------------------------
\* Zod schemas.  A tool-arguments object is
\*   [t |-> "object", location, days, language, query]
\* where a field equal to Undef is a key the object does not have.
\* parse yields [ok |-> TRUE, value |-> validated] or [ok |-> FALSE]
\* (a ZodError is thrown).  z.object strips keys the schema does not name.
\* ------------------------------------------------------------------------
IsString(v) == v.t = "string"
IsOptionalString(v) == v.t \in {"string", "undefined"}
\* variant: the upper limit is off by one
IsDays_Max4(v) == v.t = "number" /\ v.frac = 0 /\ v.int >= 1 /\ v.int <= 4

\* z.number().int().min(1).max(3)
IsDays(v) == v.t = "number" /\ v.frac = 0 /\ v.int >= 1 /\ v.int <= 3

getCurrentWeatherSchema(input) ==
  IF input.t = "object" /\ IsString(input.location)
     /\ IsOptionalString(input.language)
  THEN [ok |-> TRUE,
        value |-> [location |-> input.location, language |-> input.language]]
  ELSE [ok |-> FALSE]

\* days: ... .default(3) replaces an undefined days by 3 before the checks
getWeatherForecastSchema(input) ==
  IF input.t # "object" THEN [ok |-> FALSE]
  ELSE LET days == IF input.days = Undef THEN Num(3) ELSE input.days
       IN IF IsString(input.location) /\ IsDays(days)
             /\ IsOptionalString(input.language)
          THEN [ok |-> TRUE,
                value |-> [location |-> input.location, days |-> days,
                           language |-> input.language]]
          ELSE [ok |-> FALSE]

searchLocationsSchema(input) ==
  IF input.t = "object" /\ IsString(input.query)
  THEN [ok |-> TRUE, value |-> [query |-> input.query]]
  ELSE [ok |-> FALSE]

\* fields each schema declares: optional / defaulted
SchemaShape(toolName) ==
  CASE toolName = "getCurrentWeather" ->
         <<[field |-> "location", optional |-> FALSE, hasDefault |-> FALSE],
           [field |-> "language", optional |-> TRUE, hasDefault |-> FALSE]>>
    [] toolName = "getWeatherForecast" ->
         <<[field |-> "location", optional |-> FALSE, hasDefault |-> FALSE],
           [field |-> "days", optional |-> FALSE, hasDefault |-> TRUE],
           [field |-> "language", optional |-> TRUE, hasDefault |-> FALSE]>>
    [] toolName = "searchLocations" ->
         <<[field |-> "query", optional |-> FALSE, hasDefault |-> FALSE]>>

\* the published schema: required keeps the fields that are neither optional
\* nor defaulted
zodToMCPSchema(toolName) ==
  LET shape == SchemaShape(toolName)
      keep(f) == ~f.optional /\ ~f.hasDefault
  IN [properties |-> [i \in 1..Len(shape) |-> shape[i].field],
      required |-> {shape[i].field : i \in {j \in 1..Len(shape) : keep(shape[j])}}]

\* ------------------------------------------------------------------------
\* Upstream client
\* ------------------------------------------------------------------------
\* A credential is [t |-> "key", chars |-> <<...>>]; exceptions are records
\* with a name field.
\* variant: the validation error carries another name than the catch tests
ZodError_OtherName == [name |-> "ValidationError"]

ZodError == [name |-> "ZodError"]
TypeError == [name |-> "TypeError"]
SyntaxError == [name |-> "SyntaxError"]
WeatherAPIError(status, body, message) ==
  [name |-> "WeatherAPIError", status |-> status, body |-> body,
   message |-> message]

\* url.searchParams.set(key, value.toString()) unless undefined or null
QueryParam(v) ==
  IF v.t \in {"undefined", "null"} THEN Undef ELSE Str(toString(v))

\* the GET that callWeatherAPI sends
callWeatherAPI(endpoint, apiKey, params) ==
  [endpoint |-> endpoint, key |-> apiKey, q |-> QueryParam(params.q),
   days |-> QueryParam(params.days), lang |-> QueryParam(params.lang)]

\* response.ok
ResponseOk(status) == status >= 200 /\ status <= 299

\* What callWeatherAPI does with the upstream's answer.  A reply is
\*   [kind |-> "networkError"]                       fetch rejects
\*   [kind |-> "aborted", status]                    the status line arrives,
\*       reading the body (response.text() or response.json()) rejects
\*   [kind |-> "response", status, body]             body is
\*       [t |-> "json", value |-> payload]  or  [t |-> "text"] (not JSON)
callWeatherAPIResult(reply) ==
  IF reply.kind \in {"networkError", "aborted"}
  THEN [threw |-> TRUE, error |-> TypeError]
  ELSE IF ~ResponseOk(reply.status) THEN
    LET errorBody == IF reply.body.t = "json" THEN reply.body.value
                     ELSE [shape |-> "message"]
    IN [threw |-> TRUE,
        error |-> WeatherAPIError(reply.status, errorBody,
                                  "WeatherAPI request failed: errorText")]
  ELSE IF reply.body.t = "json" THEN [threw |-> FALSE, value |-> reply.body.value]
  ELSE [threw |-> TRUE, error |-> SyntaxError]

getCurrentWeatherData(apiKey, params) ==
  callWeatherAPI("/current.json", apiKey,
                 [q |-> params.location, days |-> Undef, lang |-> params.language])

getWeatherForecastData(apiKey, params) ==
  callWeatherAPI("/forecast.json", apiKey,
                 [q |-> params.location, days |-> params.days, lang |-> params.language])

searchLocationsData(apiKey, params) ==
  callWeatherAPI("/search.json", apiKey,
                 [q |-> params.query, days |-> Undef, lang |-> Undef])

\* ------------------------------------------------------------------------
\* Upstream payloads (parsed JSON bodies), by shape:
\*   "current"   {location, current}
\*   "forecast"  {location, current, forecast: {forecastday: [...]}}
\*   "locations" [ ... ]
\*   "error"     {error: {code, message}}
\*   "empty"     {}
\* ------------------------------------------------------------------------
HasLocation(p) == p.shape \in {"current", "forecast"}
HasCurrent(p) == p.shape \in {"current", "forecast"}
HasForecast(p) == p.shape = "forecast"
IsArray(p) == p.shape = "locations"

\* JSON.stringify(result, null, 2)
Stringify(p) == [json |-> p]

TextContent(text) == [type |-> "text", text |-> text]

\* ------------------------------------------------------------------------
\* Tool handlers.  Each handler runs in two steps around its await:
\* XStart validates and sends the GET, XFinish formats the answer.  A text
\* built by a template literal is the sequence of its pieces.
\* ------------------------------------------------------------------------
getCurrentWeatherStart(apiKey, input) ==
  LET parsed == getCurrentWeatherSchema(input)
  IN IF ~parsed.ok THEN [threw |-> TRUE, error |-> ZodError]
     ELSE [threw |-> FALSE, validatedInput |-> parsed.value,
           call |-> getCurrentWeatherData(apiKey, parsed.value)]

getCurrentWeatherFinish(validatedInput, result) ==
  IF ~(HasLocation(result) /\ HasCurrent(result))
  THEN [threw |-> TRUE, error |-> TypeError]
  ELSE [threw |-> FALSE,
        value |-> [content |-> <<
          TextContent(<<"Current weather in ", result.name, ", ", result.country,
                        ": ", result.condition, ", ", result.temp_c, "°C (",
                        result.temp_f, "°F). Feels like ", result.feelslike_c,
                        "°C. Humidity: ", result.humidity, "%. Wind: ",
                        result.wind_kph, " km/h ", result.wind_dir, ".">>),
          TextContent(Stringify(result))>>]]

\* { days: 3, ...input }
inputWithDefaults(input) ==
  IF input.t = "object"
  THEN [input EXCEPT !.days = IF input.days = Undef THEN Num(3) ELSE input.days]
  ELSE [t |-> "object", location |-> Undef, days |-> Num(3),
        language |-> Undef, query |-> Undef]

getWeatherForecastStart(apiKey, input) ==
  LET parsed == getWeatherForecastSchema(inputWithDefaults(input))
  IN IF ~parsed.ok THEN [threw |-> TRUE, error |-> ZodError]
     ELSE [threw |-> FALSE, validatedInput |-> parsed.value,
           call |-> getWeatherForecastData(apiKey, parsed.value)]

RECURSIVE ForecastLines(_)
ForecastLines(days) ==
  IF days = <<>> THEN <<>>
  ELSE <<Head(days).date, ": ", Head(days).condition, ", High: ",
         Head(days).maxtemp_c, "°C, Low: ", Head(days).mintemp_c, "°C\n">>
       \o ForecastLines(Tail(days))

getWeatherForecastFinish(validatedInput, result) ==
  IF ~(HasLocation(result) /\ HasForecast(result))
  THEN [threw |-> TRUE, error |-> TypeError]
  ELSE [threw |-> FALSE,
        value |-> [content |-> <<
          TextContent(<<toString(validatedInput.days), "-day forecast for ",
                        result.name, ", ", result.country, ":\n">>
                      \o ForecastLines(result.forecastday)),
          TextContent(Stringify(result))>>]]

searchLocationsStart(apiKey, input) ==
  LET parsed == searchLocationsSchema(input)
  IN IF ~parsed.ok THEN [threw |-> TRUE, error |-> ZodError]
     ELSE [threw |-> FALSE, validatedInput |-> parsed.value,
           call |-> searchLocationsData(apiKey, parsed.value)]

RECURSIVE LocationLines(_)
LocationLines(items) ==
  IF items = <<>> THEN <<>>
  ELSE <<Head(items).name, ", ", Head(items).region, ", ", Head(items).country,
         " (", Head(items).lat, ", ", Head(items).lon, ")\n">>
       \o LocationLines(Tail(items))

searchLocationsFinish(validatedInput, result) ==
  IF ~IsArray(result) THEN [threw |-> TRUE, error |-> TypeError]
  ELSE [threw |-> FALSE,
        value |-> [content |-> <<
          TextContent(<<"Found ", NatToString(Len(result.items)),
                        " locations matching \"", validatedInput.query.s, "\":\n">>
                      \o LocationLines(result.items)),
          TextContent(Stringify(result))>>]]

\* ------------------------------------------------------------------------
\* JSON-RPC responses
\* ------------------------------------------------------------------------
\* A response is [jsonrpc, id, result, error]; a field equal to Undef is
\* absent from the serialized body.
createErrorResponse(id, code, message, data) ==
  [jsonrpc |-> "2.0",
   id |-> IF Truthy(id) THEN id ELSE Str("unknown"),
   result |-> Undef,
   error |-> [code |-> code, message |-> message, data |-> data]]

\* the object literals { jsonrpc: '2.0', id: request.id, result }
ResultResponse(id, result) ==
  [jsonrpc |-> "2.0", id |-> id, result |-> result, error |-> Undef]

\* variant: the switch has only its default branch
mapWeatherAPIErrorToJSONRPC_DefaultOnly(error) ==
  [code |-> JSON_RPC_ERRORS.INTERNAL_ERROR,
   message |-> "WeatherAPI.com service error",
   data |-> [status |-> error.status, detail |-> error.message]]

mapWeatherAPIErrorToJSONRPC(error) ==
  CASE error.status = 400 ->
         [code |-> JSON_RPC_ERRORS.INVALID_PARAMS,
          message |-> "Invalid request parameters",
          data |-> [status |-> error.status,
                    detail |-> IF error.body.shape = "error"
                               THEN error.body.message ELSE error.message]]
    [] error.status = 401 ->
         [code |-> JSON_RPC_ERRORS.UNAUTHORIZED,
          message |-> "Invalid WeatherAPI.com API key",
          data |-> [status |-> error.status,
                    detail |-> "Check your API key and make sure it's active"]]
    [] error.status = 403 ->
         [code |-> JSON_RPC_ERRORS.FORBIDDEN,
          message |-> "WeatherAPI.com access denied",
          data |-> [status |-> error.status,
                    detail |-> "Your API key may have exceeded its quota or lacks required permissions"]]
    [] error.status = 404 ->
         [code |-> JSON_RPC_ERRORS.NOT_FOUND,
          message |-> "Location not found",
          data |-> [status |-> error.status,
                    detail |-> "The specified location could not be found"]]
    [] error.status = 429 ->
         [code |-> JSON_RPC_ERRORS.RATE_LIMITED,
          message |-> "Rate limit exceeded",
          data |-> [status |-> error.status,
                    detail |-> "Too many requests to WeatherAPI.com. Please wait before trying again."]]
    [] OTHER ->
         [code |-> JSON_RPC_ERRORS.INTERNAL_ERROR,
          message |-> "WeatherAPI.com service error",
          data |-> [status |-> error.status, detail |-> error.message]]

\* ------------------------------------------------------------------------
\* Credential extraction.  A header is [present, chars]; chars is the
\* sequence of its characters.
\* ------------------------------------------------------------------------
Key(chars) == [t |-> "key", chars |-> chars]

BearerPrefix == <<"B", "e", "a", "r", "e", "r", " ">>

StartsWith(s, prefix) ==
  Len(s) >= Len(prefix) /\ SubSeq(s, 1, Len(prefix)) = prefix

Slice(s, n) == SubSeq(s, n + 1, Len(s))

IsSpace(c) == c \in {" ", "\t"}

RECURSIVE TrimStart(_)
TrimStart(s) ==
  IF s # <<>> /\ IsSpace(Head(s)) THEN TrimStart(Tail(s)) ELSE s

RECURSIVE TrimEnd(_)
TrimEnd(s) ==
  IF s # <<>> /\ IsSpace(s[Len(s)]) THEN TrimEnd(SubSeq(s, 1, Len(s) - 1)) ELSE s

\* variant: only leading whitespace is removed
Trim_StartOnly(s) == TrimStart(s)

Trim(s) == TrimEnd(TrimStart(s))

extractAPIKey(authHeader) ==
  IF ~authHeader.present \/ authHeader.chars = <<>> THEN Undef
  ELSE IF ~StartsWith(authHeader.chars, BearerPrefix) THEN Undef
  ELSE LET apiKey == Slice(authHeader.chars, 7)
       IN IF apiKey = <<>> \/ Len(Trim(apiKey)) = 0 THEN Undef
          ELSE Key(Trim(apiKey))

\* ------------------------------------------------------------------------
\* Tool registry
\* ------------------------------------------------------------------------
\* Object.keys(allTools), in insertion order
ToolNames == <<"getCurrentWeather", "getWeatherForecast", "searchLocations">>

serverInfo == [name |-> "weatherapi-mcp", version |-> "1.0.0"]

\* variant: the forecast tool is not published
tools_NoForecast ==
  [i \in 1..2 |->
     [name |-> <<"getCurrentWeather", "searchLocations">>[i],
      inputSchema |-> zodToMCPSchema(<<"getCurrentWeather", "searchLocations">>[i])]]

tools ==
  [i \in 1..Len(ToolNames) |->
     [name |-> ToolNames[i], inputSchema |-> zodToMCPSchema(ToolNames[i])]]

\* ToPropertyKey of the value used as the index in allTools[name]
PropertyKey(v) ==
  CASE v.t = "string" -> v.s
    [] v.t = "undefined" -> "undefined"
    [] v.t = "null" -> "null"
    [] v.t = "number" -> toString(v)
    [] OTHER -> "[object Object]"

\* properties every object literal inherits from Object.prototype
ObjectPrototype == {"toString", "constructor", "__proto__", "hasOwnProperty"}

\* allTools[name]: an own tool, an inherited property, or undefined
allTools(name) ==
  LET key == PropertyKey(name)
  IN IF \E i \in 1..Len(ToolNames) : ToolNames[i] = key
     THEN [kind |-> "tool", name |-> key]
     ELSE IF key \in ObjectPrototype
     THEN [kind |-> "inherited", name |-> key]
     ELSE [kind |-> "undefined", name |-> key]

\* tool(apiKey, args) when tool is an inherited property, called with an
\* undefined receiver
InheritedCall(prop, apiKey, args) ==
  CASE prop = "toString" ->
         [threw |-> FALSE, value |-> Str("[object Undefined]")]
    [] prop = "constructor" ->
         [threw |-> FALSE,
          value |-> IF apiKey.t = "key"
                    THEN [t |-> "String", chars |-> apiKey.chars]
                    ELSE [t |-> "Object"]]
    [] OTHER -> [threw |-> TRUE, error |-> TypeError]

\* a weather tool that did not throw is suspended at its await
Suspends(started) == started @@ [awaits |-> ~started.threw]

\* the first step of tool(apiKey, args), up to the await of the upstream GET
ToolStart(tool, apiKey, args) ==
  CASE tool.kind = "inherited" ->
         InheritedCall(tool.name, apiKey, args) @@ [awaits |-> FALSE]
    [] tool.name = "getCurrentWeather" ->
         Suspends(getCurrentWeatherStart(apiKey, args))
    [] tool.name = "getWeatherForecast" ->
         Suspends(getWeatherForecastStart(apiKey, args))
    [] tool.name = "searchLocations" ->
         Suspends(searchLocationsStart(apiKey, args))

\* the tool's code after its await, given what callWeatherAPI yielded
ToolFormat(toolName, validatedInput, fetched) ==
  IF fetched.threw THEN fetched
  ELSE CASE toolName = "getCurrentWeather" ->
              getCurrentWeatherFinish(validatedInput, fetched.value)
         [] toolName = "getWeatherForecast" ->
              getWeatherForecastFinish(validatedInput, fetched.value)
         [] toolName = "searchLocations" ->
              searchLocationsFinish(validatedInput, fetched.value)

\* the rest of tool(apiKey, args) once the upstream has answered
ToolFinish(toolName, validatedInput, reply) ==
  ToolFormat(toolName, validatedInput, callWeatherAPIResult(reply))

\* ------------------------------------------------------------------------
\* Dispatcher
\* ------------------------------------------------------------------------
\* property read on a parsed JSON value that is not null
Get(v, field) == IF v.t = "object" THEN v[field] ELSE Undef

\* createErrorResponse(request.id, code, message, data) of a mapped error
ErrorFrom(id, m) == createErrorResponse(id, m.code, m.message, m.data)

\* variant: the generic fallback answers without an error object
ToolCatch_NoFallback(request, error) ==
  IF error.name = "WeatherAPIError"
  THEN ErrorFrom(request.id, mapWeatherAPIErrorToJSONRPC(error))
  ELSE IF error.name = "ZodError"
  THEN createErrorResponse(request.id, JSON_RPC_ERRORS.INVALID_PARAMS,
         "Invalid input parameters",
         [hint |-> "Check the tool's input schema for required parameters"])
  ELSE ResultResponse(request.id, Undef)

\* the catch block around tool(apiKey, args)
ToolCatch(request, error) ==
  IF error.name = "WeatherAPIError"
  THEN ErrorFrom(request.id, mapWeatherAPIErrorToJSONRPC(error))
  ELSE IF error.name = "ZodError"
  THEN createErrorResponse(request.id, JSON_RPC_ERRORS.INVALID_PARAMS,
         "Invalid input parameters",
         [hint |-> "Check the tool's input schema for required parameters"])
  ELSE createErrorResponse(request.id, JSON_RPC_ERRORS.INTERNAL_ERROR,
         "Internal server error", [detail |-> error.name])

\* variant: the credential check is skipped
CredentialMissing_Never(apiKey) == FALSE

\* if (!apiKey)
CredentialMissing(apiKey) == ~Truthy(apiKey)

\* variant: a method is missing from the list
AvailableMethods_Short == <<"initialize", "tools/list">>

AvailableMethods == <<"initialize", "tools/list", "tools/call">>

\* request.params || {}
Params(request) ==
  IF Truthy(request.params) THEN request.params
  ELSE [t |-> "object", name |-> Undef, arguments |-> Undef]

\* lines 463-498 up to the await: the tool function has been called
ToolInvoked(request, toolName, started) ==
  IF started.awaits
  THEN [done |-> FALSE, tool |-> toolName,
        validatedInput |-> started.validatedInput, call |-> started.call]
  ELSE IF started.threw
  THEN [done |-> TRUE, ran |-> TRUE,
        response |-> ToolCatch(request, started.error)]
  ELSE [done |-> TRUE, ran |-> TRUE,
        response |-> ResultResponse(request.id, started.value)]

\* case 'tools/call', with tool = allTools[name]
ToolsCall(request, apiKey, tool, args) ==
  IF tool.kind = "undefined"
  THEN [done |-> TRUE, ran |-> FALSE,
        response |-> createErrorResponse(request.id,
           JSON_RPC_ERRORS.METHOD_NOT_FOUND, "Tool not found",
           [availableTools |-> ToolNames])]
  ELSE IF CredentialMissing(apiKey)
  THEN [done |-> TRUE, ran |-> FALSE,
        response |-> createErrorResponse(request.id,
           JSON_RPC_ERRORS.UNAUTHORIZED,
           "WeatherAPI.com API key required",
           [hint |-> "Include your API key in the Authorization header: \"Bearer your-api-key\"",
            signup |-> "Get a free API key at https://www.weatherapi.com/signup.aspx"])]
  ELSE ToolInvoked(request, tool.name, ToolStart(tool, apiKey, args))

\* handleMCPRequest up to its first await.  Yields
\*   [done |-> TRUE, response, ran]  the response is ready; ran tells whether
\*                                   a function found in allTools was called
\*   [done |-> FALSE, tool, validatedInput, call]  a GET was sent
handleMCPRequestStart(request, apiKey) ==
  CASE request.method = Str("initialize") ->
         [done |-> TRUE, ran |-> FALSE,
          response |-> ResultResponse(request.id,
             [protocolVersion |-> "2024-11-05",
              capabilities |-> [tools |-> [listChanged |-> TRUE]],
              serverInfo |-> serverInfo])]
    [] request.method = Str("tools/list") ->
         [done |-> TRUE, ran |-> FALSE,
          response |-> ResultResponse(request.id, [tools |-> tools])]
    [] request.method = Str("tools/call") ->
         ToolsCall(request, apiKey,
                   allTools(Get(Params(request), "name")),
                   Get(Params(request), "arguments"))
    [] OTHER ->
         [done |-> TRUE, ran |-> FALSE,
          response |-> createErrorResponse(request.id,
             JSON_RPC_ERRORS.METHOD_NOT_FOUND, "Method not found",
             [availableMethods |-> AvailableMethods])]

\* lines 464-498 after the await: the tool returned or threw
ToolReturned(request, finished) ==
  IF finished.threw THEN ToolCatch(request, finished.error)
  ELSE ResultResponse(request.id, finished.value)

\* handleMCPRequest from the answer of the upstream to its return
handleMCPRequestFinish(request, toolName, validatedInput, reply) ==
  ToolReturned(request, ToolFinish(toolName, validatedInput, reply))

\* ------------------------------------------------------------------------
\* HTTP transport: serve({ fetch })
\* ------------------------------------------------------------------------
\* An HTTP request is [method, path, auth, body]; the body is the parsed JSON
\* value, or [t |-> "invalid-json"] when req.json() rejects.
\* An HTTP response is [status, body].
JsonBody(status, response) ==
  [status |-> status, body |-> [t |-> "json", value |-> response]]

ParseErrorResponse ==
  JsonBody(400, createErrorResponse(Null, JSON_RPC_ERRORS.PARSE_ERROR,
    "Invalid JSON in request body",
    [hint |-> "Make sure your request body is valid JSON"]))

\* variant: a request without an id is rejected too
InvalidEnvelope_NeedsId(body) ==
  \/ ~Truthy(Get(body, "jsonrpc"))
  \/ Get(body, "jsonrpc") # Str("2.0")
  \/ ~Truthy(Get(body, "method"))
  \/ ~Truthy(Get(body, "id"))

\* if (!body.jsonrpc || body.jsonrpc !== '2.0' || !body.method)
InvalidEnvelope(body) ==
  \/ ~Truthy(Get(body, "jsonrpc"))
  \/ Get(body, "jsonrpc") # Str("2.0")
  \/ ~Truthy(Get(body, "method"))

\* a response that fetch returns without calling handleMCPRequest
Returned(apiKey, http) ==
  [done |-> TRUE, invoked |-> FALSE, ran |-> FALSE, apiKey |-> apiKey,
   http |-> http]

\* lines 586-593: await handleMCPRequest(body, apiKey), h being what it has
\* done up to its first await
Handled(apiKey, h) ==
  IF h.done
  THEN [done |-> TRUE, invoked |-> TRUE, ran |-> h.ran,
        apiKey |-> apiKey, http |-> JsonBody(200, h.response)]
  ELSE [done |-> FALSE, invoked |-> TRUE, ran |-> TRUE,
        apiKey |-> apiKey, tool |-> h.tool,
        validatedInput |-> h.validatedInput, call |-> h.call]

\* the try block of fetch for a POST to /mcp
McpPost(body, apiKey) ==
  IF body.t = "invalid-json"
  THEN \* req.json() rejects
       Returned(apiKey, ParseErrorResponse)
  ELSE IF body.t = "null"
  THEN \* body.jsonrpc throws a TypeError, caught by the same catch
       Returned(apiKey, ParseErrorResponse)
  ELSE IF InvalidEnvelope(body)
  THEN Returned(apiKey, JsonBody(400,
         createErrorResponse(
           IF Truthy(Get(body, "id")) THEN Get(body, "id") ELSE Null,
           JSON_RPC_ERRORS.INVALID_REQUEST, "Invalid JSON-RPC request",
           [hint |-> "Request must include jsonrpc: \"2.0\" and method fields"])))
  ELSE Handled(apiKey, handleMCPRequestStart(body, apiKey))

\* fetch(req) up to its first await of the upstream, or to its return.
\* invoked tells whether handleMCPRequest was called.
FetchStart(req) ==
  IF req.method = "OPTIONS"
  THEN Returned(Undef, [status |-> 200, body |-> [t |-> "none"]])
  ELSE IF req.path = "/healthz"
  THEN Returned(Undef, [status |-> 200, body |-> [t |-> "text", text |-> "OK"]])
  ELSE IF req.method # "POST" \/ req.path # "/mcp"
  THEN Returned(Undef, [status |-> 404, body |-> [t |-> "text", text |-> "Not Found"]])
  ELSE McpPost(req.body, extractAPIKey(req.auth))

\* ------------------------------------------------------------------------
\* Inputs
\* ------------------------------------------------------------------------
Ids == {Undef, Num(0), Str(""), Num(7)}

Methods == {Undef, Str(""), Num(1), Str("initialize"), Str("tools/list"),
            Str("tools/call"), Str("resources/list"), Str("TOOLS/LIST")}

Names == {Undef, Str("getCurrentWeather"), Str("getWeatherForecast"),
          Str("searchLocations"), Str("getWeather"), Str("toString"),
          Str("constructor"), Str("__proto__")}

DaysArgs == {Undef, Null, NumHalf(2), Str("2")} \cup {Num(n) : n \in 0..MaxDaysArg}

\* arguments objects: the fields of the two weather tools, or the field of
\* the search tool
ArgsObjects ==
  {[t |-> "object", location |-> l, days |-> d, language |-> g, query |-> Undef] :
     l \in {Undef, Str("London"), Num(5)}, d \in DaysArgs,
     g \in {Undef, Str("fr"), Num(5)}}
  \cup {[t |-> "object", location |-> Undef, days |-> Undef, language |-> Undef,
          query |-> q] : q \in {Str("Lon"), Num(5)}}

Arguments == {Undef, Str("London")} \cup ArgsObjects

ParamsObjects ==
  {[t |-> "object", name |-> n, arguments |-> a] : n \in Names, a \in Arguments}

SampleParams == [t |-> "object", name |-> Str("getCurrentWeather"), arguments |-> Undef]

Envelope(j, i, m, p) ==
  [t |-> "object", jsonrpc |-> j, id |-> i, method |-> m, params |-> p]

Bodies ==
  {[t |-> "invalid-json"], Null, Num(5), Str("ping"), Bool(TRUE), Arr}
  \cup {Envelope(j, i, m, Undef) :
          j \in {Undef, Str("1.0")}, i \in Ids, m \in Methods}
  \cup {Envelope(Str("2.0"), i, m, p) :
          i \in Ids, m \in Methods \ {Str("tools/call")},
          p \in {Undef, SampleParams}}
  \cup {Envelope(Str("2.0"), i, Str("tools/call"), p) :
          i \in Ids, p \in {Undef} \cup ParamsObjects}

NoHeader == [present |-> FALSE, chars |-> <<>>]
Header(chars) == [present |-> TRUE, chars |-> chars]

AuthHeaders ==
  {NoHeader,
   Header(<<"B", "a", "s", "i", "c", " ", "k", "1">>),
   Header(BearerPrefix),
   Header(BearerPrefix \o <<" ", " ">>),
   Header(BearerPrefix \o <<"k", "1">>),
   Header(BearerPrefix \o <<" ", "k", "1", " ">>),
   Header(BearerPrefix \o <<"k", "2">>)}

HttpRequests ==
  {[method |-> "POST", path |-> "/mcp", auth |-> a, body |-> b] :
     a \in AuthHeaders, b \in Bodies}
  \cup {[method |-> m, path |-> p, auth |-> NoHeader, body |-> [t |-> "none"]] :
          m \in {"OPTIONS", "GET"}, p \in {"/mcp", "/healthz"}}
  \cup {[method |-> "POST", path |-> "/healthz", auth |-> NoHeader,
         body |-> [t |-> "none"]]}

CurrentPayload ==
  [shape |-> "current", name |-> "London", country |-> "UK",
   condition |-> "Sunny", temp_c |-> "20", temp_f |-> "68",
   feelslike_c |-> "19", humidity |-> "50", wind_kph |-> "10",
   wind_dir |-> "N"]

ForecastDay(i) ==
  [date |-> "2025-01-0" \o NatToString(i), condition |-> "Sunny",
   maxtemp_c |-> "21", mintemp_c |-> "11"]

ForecastPayload(n) ==
  CurrentPayload @@ [forecastday |-> [i \in 1..n |-> ForecastDay(i)]]

LocationsPayload(n) ==
  [shape |-> "locations",
   items |-> [i \in 1..n |-> [name |-> "London", region |-> "City of London",
                              country |-> "UK", lat |-> "51.52", lon |-> "-0.11"]]]

ErrorPayload == [shape |-> "error", message |-> "No matching location found."]

Payloads ==
  {CurrentPayload, ErrorPayload, [shape |-> "empty"]}
  \cup {[ForecastPayload(n) EXCEPT !.shape = "forecast"] : n \in 0..MaxForecastDays}
  \cup {LocationsPayload(n) : n \in 0..MaxLocations}

OkStatuses == {200}
NonOkStatuses == {400, 401, 402, 403, 404, 429, 500, 503}

Replies ==
  {[kind |-> "networkError"]}
  \cup {[kind |-> "aborted", status |-> s] : s \in OkStatuses \cup NonOkStatuses}
  \cup {[kind |-> "response", status |-> s, body |-> [t |-> "json", value |-> p]] :
          s \in OkStatuses, p \in Payloads}
  \cup {[kind |-> "response", status |-> s, body |-> [t |-> "text"]] :
          s \in OkStatuses \cup NonOkStatuses}
  \cup {[kind |-> "response", status |-> s, body |-> [t |-> "json", value |-> p]] :
          s \in NonOkStatuses, p \in {ErrorPayload, [shape |-> "empty"]}}

\* ------------------------------------------------------------------------
\* State machine
\* ------------------------------------------------------------------------
\* conn[r] is the exchange served on connection r:
\*   pc        "idle", "awaiting" (the upstream GET is in flight), "done"
\*   req       the HTTP request
\*   apiKey    the credential extractAPIKey found
\*   tool, validatedInput   the suspended tool handler
\*   upstream  the GETs sent upstream, in order
\*   replies   the upstream's answers, in order
\*   invoked   number of handleMCPRequest invocations
\*   ran       number of calls of a function found in allTools
\*   sent      the HTTP responses returned, in order
\* prev is the outcome of the exchange served before the current one:
\*   "none", "plain" (no JSON-RPC body), "result", or "error"
VARIABLES conn, prev

vars == <<conn, prev>>

Slots == {1}

NoReq == [method |-> "", path |-> "", auth |-> NoHeader, body |-> [t |-> "none"]]

Idle ==
  [pc |-> "idle", req |-> NoReq, apiKey |-> Undef, tool |-> "",
   validatedInput |-> [none |-> TRUE], upstream |-> <<>>, replies |-> <<>>,
   invoked |-> 0, ran |-> 0, sent |-> <<>>]

Init ==
  /\ conn = [r \in Slots |-> Idle]
  /\ prev = "none"

Outcome(http) ==
  IF http.body.t # "json" THEN "plain"
  ELSE IF http.body.value.error # Undef THEN "error" ELSE "result"

\* the exchange of req once fetch has run to f
Started(req, f) ==
  IF f.done
  THEN [Idle EXCEPT !.pc = "done", !.req = req, !.apiKey = f.apiKey,
                    !.invoked = IF f.invoked THEN 1 ELSE 0,
                    !.ran = IF f.ran THEN 1 ELSE 0,
                    !.sent = <<f.http>>]
  ELSE [Idle EXCEPT !.pc = "awaiting", !.req = req, !.apiKey = f.apiKey,
                    !.invoked = 1, !.ran = 1, !.tool = f.tool,
                    !.validatedInput = f.validatedInput,
                    !.upstream = <<f.call>>]

\* variant: the credential is kept in one place shared by all exchanges, and
\* a request that arrives while a GET is in flight uses the one found there
Fetch_SharedKey(r, requests) ==
  /\ conn[r].pc = "idle"
  /\ \E req \in requests :
       conn' = [conn EXCEPT ![r] =
                  Started(req,
                    FetchStart(IF \E q \in DOMAIN conn : conn[q].pc = "awaiting"
                               THEN [req EXCEPT !.auth =
                                       conn[CHOOSE q \in DOMAIN conn :
                                              conn[q].pc = "awaiting"].req.auth]
                               ELSE req))]
  /\ UNCHANGED prev

\* a request out of requests arrives on connection r and fetch runs to its
\* first await
Fetch(r, requests) ==
  /\ conn[r].pc = "idle"
  /\ \E req \in requests :
       conn' = [conn EXCEPT ![r] = Started(req, FetchStart(req))]
  /\ UNCHANGED prev

\* variant: a failed GET is sent again instead of being reported
Finished_Retry(c, reply) ==
  IF reply.kind = "networkError"
  THEN [c EXCEPT !.replies = Append(c.replies, reply),
                 !.upstream = Append(c.upstream, c.upstream[1])]
  ELSE [c EXCEPT !.pc = "done", !.replies = Append(c.replies, reply),
                 !.sent = Append(c.sent,
                    JsonBody(200, handleMCPRequestFinish(c.req.body, c.tool,
                                                         c.validatedInput, reply)))]

\* the exchange c once the upstream has answered with reply
Finished(c, reply) ==
  [c EXCEPT !.pc = "done", !.replies = Append(c.replies, reply),
            !.sent = Append(c.sent,
               JsonBody(200, handleMCPRequestFinish(c.req.body, c.tool,
                                                    c.validatedInput, reply)))]

\* the upstream answers the GET of connection r with one of replies and fetch
\* runs to its return
UpstreamReply(r, replies) ==
  /\ conn[r].pc = "awaiting"
  /\ \E reply \in replies :
       conn' = [conn EXCEPT ![r] = Finished(conn[r], reply)]
  /\ UNCHANGED prev

\* the response has been written; the connection takes the next request
Close(r) ==
  /\ conn[r].pc = "done"
  /\ conn' = [conn EXCEPT ![r] = Idle]
  /\ prev' = Outcome(conn[r].sent[1])

Next ==
  \/ \E r \in Slots : Fetch(r, HttpRequests)
  \/ \E r \in Slots : UpstreamReply(r, Replies)
  \/ \E r \in Slots : Close(r)

Spec == Init /\ [][Next]_vars

\* ------------------------------------------------------------------------
\* Several exchanges at once: every await of fetch lets another request in,
\* so up to MaxInFlight exchanges are between their GET and its answer
\* ------------------------------------------------------------------------
MaxInFlight == 2

ConcSlots == 1..MaxInFlight

ConcBodies ==
  {Envelope(Str("2.0"), Num(7), Str("tools/call"),
            [t |-> "object", name |-> Str("getCurrentWeather"),
             arguments |-> [t |-> "object", location |-> Str("London"),
                            days |-> Undef, language |-> Undef, query |-> Undef]]),
   Envelope(Str("2.0"), Num(0), Str("tools/call"),
            [t |-> "object", name |-> Str("searchLocations"),
             arguments |-> [t |-> "object", location |-> Undef, days |-> Undef,
                            language |-> Undef, query |-> Str("Lon")]]),
   Envelope(Str("2.0"), Str(""), Str("tools/list"), Undef)}

ConcRequests ==
  {[method |-> "POST", path |-> "/mcp", auth |-> a, body |-> b] :
     a \in {NoHeader, Header(BearerPrefix \o <<"k", "1">>),
            Header(BearerPrefix \o <<"k", "2">>)},
     b \in ConcBodies}

ConcReplies ==
  {[kind |-> "networkError"],
   [kind |-> "response", status |-> 200,
    body |-> [t |-> "json", value |-> CurrentPayload]],
   [kind |-> "response", status |-> 200,
    body |-> [t |-> "json", value |-> LocationsPayload(1)]],
   [kind |-> "response", status |-> 401,
    body |-> [t |-> "json", value |-> ErrorPayload]]}

InitConc ==
  /\ conn = [r \in ConcSlots |-> Idle]
  /\ prev = "none"

NextConc ==
  \/ \E r \in ConcSlots : Fetch(r, ConcRequests)
  \/ \E r \in ConcSlots : UpstreamReply(r, ConcReplies)
  \/ \E r \in ConcSlots : Close(r)

SpecConc == InitConc /\ [][NextConc]_vars

\* ------------------------------------------------------------------------
\* Properties
\* ------------------------------------------------------------------------
Done(c) == c.pc = "done"
IsMcpPost(c) == c.req.method = "POST" /\ c.req.path = "/mcp"
\* handleMCPRequest was invoked for the exchange
Dispatched(c) == c.invoked = 1
\* the JSON-RPC response of a finished exchange
Response(c) == c.sent[Len(c.sent)].body.value
HttpStatus(c) == c.sent[Len(c.sent)].status
ErrorCode(resp) == IF resp.error = Undef THEN 0 ELSE resp.error.code
IsToolsCall(c) == Dispatched(c) /\ c.req.body.method = Str("tools/call")
CallName(c) == Get(c.req.body.params, "name")
CallArgs(c) == Get(c.req.body.params, "arguments")
RegisteredNames == {"getCurrentWeather", "getWeatherForecast", "searchLocations"}
NameIsRegistered(c) == CallName(c).t = "string" /\ CallName(c).s \in RegisteredNames
NoCredential(c) == c.apiKey = Undef

\* C1 (as stated): every tools/call without a credential is answered with
\* error -32001, whatever params.name is.
C1_Original ==
  \A r \in DOMAIN conn :
    LET c == conn[r]
    IN (Done(c) /\ IsToolsCall(c) /\ NoCredential(c))
         => ErrorCode(Response(c)) = -32001

\* C1 (amended): every tools/call without a credential whose params.name is
\* one of the three registered tools is answered with error -32001, and
\* neither a tool handler runs nor an upstream call is made.
C1_Amended ==
  \A r \in DOMAIN conn :
    LET c == conn[r]
    IN (IsToolsCall(c) /\ NoCredential(c) /\ NameIsRegistered(c))
         => /\ Done(c)
            /\ ErrorCode(Response(c)) = -32001
            /\ Response(c).result = Undef
            /\ c.ran = 0 /\ c.upstream = <<>>

C1_Witness ==
  \E r \in DOMAIN conn :
    LET c == conn[r]
    IN /\ Done(c) /\ IsToolsCall(c) /\ NoCredential(c)
       /\ CallName(c) = Str("getWeatherForecast")
       /\ ErrorCode(Response(c)) = -32001

\* C2: every tools/call whose params.name is not a registered tool (absent,
\* unknown, or a name every object inherits) is answered with error -32601
\* whose data.availableTools lists the three tools, and no function found in
\* the registry is called.
C2_Claim ==
  \A r \in DOMAIN conn :
    LET c == conn[r]
    IN (Done(c) /\ IsToolsCall(c) /\ ~NameIsRegistered(c))
         => /\ ErrorCode(Response(c)) = -32601
            /\ Response(c).error.data.availableTools
                 = <<"getCurrentWeather", "getWeatherForecast", "searchLocations">>
            /\ c.ran = 0

\* the code the claim assigns to a non-2xx upstream status
ExpectedCode(status) ==
  CASE status = 400 -> -32602
    [] status = 401 -> -32001
    [] status = 403 -> -32002
    [] status = 404 -> -32003
    [] status = 429 -> -32004
    [] OTHER -> -32603

AnsweredNon2xx(c) ==
  /\ Done(c) /\ Len(c.replies) = 1
  /\ c.replies[1].kind = "response"
  /\ ~(c.replies[1].status \in 200..299)

\* C3: when the upstream answers a tool's GET with a non-2xx status s, the
\* response is an error whose code is the table's code for s and whose
\* data.status is s.
C3_StatusMapping ==
  \A r \in DOMAIN conn :
    LET c == conn[r]
    IN AnsweredNon2xx(c)
         => /\ Response(c).result = Undef
            /\ ErrorCode(Response(c)) = ExpectedCode(c.replies[1].status)
            /\ Response(c).error.data.status = c.replies[1].status

C3_Witness ==
  \E r \in DOMAIN conn :
    LET c == conn[r]
    IN /\ AnsweredNon2xx(c) /\ c.replies[1].status = 429
       /\ ErrorCode(Response(c)) = -32004

\* the claim's "an integer in [1,3]"
IntegerIn1To3(v) == v.t = "number" /\ v.frac = 0 /\ v.int \in 1..3

ForecastCall(c) ==
  /\ IsToolsCall(c) /\ ~NoCredential(c)
  /\ CallName(c) = Str("getWeatherForecast")

OmitsDays(c) == Get(CallArgs(c), "days") = Undef

\* C4: for getWeatherForecast with a credential: when the arguments omit
\* days, every upstream call carries days = 3 (and one is made when the other
\* arguments are valid) and a result's summary starts with "3-day forecast
\* for "; when days is supplied and is not an integer in [1,3], the response
\* is error -32602 and no upstream call is made.
C4_ForecastDays ==
  \A r \in DOMAIN conn :
    LET c == conn[r]
        args == CallArgs(c)
        othersValid == /\ args.t = "object"
                       /\ args.location.t = "string"
                       /\ args.language.t \in {"string", "undefined"}
    IN ForecastCall(c) =>
         /\ OmitsDays(c) =>
              /\ \A i \in 1..Len(c.upstream) : c.upstream[i].days = Str("3")
              /\ othersValid => Len(c.upstream) = 1
              /\ (Done(c) /\ Response(c).result # Undef) =>
                   /\ Response(c).result.content[1].text[1] = "3"
                   /\ Response(c).result.content[1].text[2] = "-day forecast for "
         /\ (~OmitsDays(c) /\ ~IntegerIn1To3(Get(args, "days"))) =>
              /\ Done(c)
              /\ ErrorCode(Response(c)) = -32602
              /\ c.upstream = <<>>

C4_Witness ==
  \E r \in DOMAIN conn :
    LET c == conn[r]
    IN /\ ForecastCall(c) /\ OmitsDays(c) /\ Done(c)
       /\ Len(c.upstream) = 1 /\ c.upstream[1].days = Str("3")
       /\ Response(c).result # Undef
       /\ Response(c).result.content[1].text[1] = "3"

KnownMethods == {Str("initialize"), Str("tools/list"), Str("tools/call")}

\* C5: every request handleMCPRequest receives whose method is not
\* initialize, tools/list or tools/call is answered with error -32601 whose
\* data.availableMethods lists exactly these three, with or without a
\* credential.
C5_UnknownMethod ==
  \A r \in DOMAIN conn :
    LET c == conn[r]
    IN (Dispatched(c) /\ c.req.body.method \notin KnownMethods)
         => /\ Done(c)
            /\ Response(c).result = Undef
            /\ ErrorCode(Response(c)) = -32601
            /\ Response(c).error.data.availableMethods
                 = <<"initialize", "tools/list", "tools/call">>

C5_Witness ==
  \E r \in DOMAIN conn :
    LET c == conn[r]
    IN /\ Done(c) /\ Dispatched(c) /\ ~NoCredential(c)
       /\ c.req.body.method = Str("resources/list")
       /\ ErrorCode(Response(c)) = -32601

\* C6: an exchange for which handleMCPRequest was invoked sends nothing while
\* the upstream call is in flight and, once finished, has sent exactly one
\* response: a JSON-RPC response (never the transport's parse error that an
\* escaped exception would produce) with jsonrpc "2.0" and exactly one of
\* result and error.
C6_OneResponse ==
  \A r \in DOMAIN conn :
    LET c == conn[r]
    IN /\ c.invoked <= 1
       /\ (Dispatched(c) /\ ~Done(c)) => c.sent = <<>>
       /\ (Dispatched(c) /\ Done(c)) =>
            /\ Len(c.sent) = 1
            /\ c.sent[1].body.t = "json"
            /\ Response(c).jsonrpc = "2.0"
            /\ (Response(c).result = Undef) # (Response(c).error = Undef)
            /\ ErrorCode(Response(c)) # -32700

\* a 2xx answer whose body is not JSON reached the handler
C6_Witness ==
  \E r \in DOMAIN conn :
    LET c == conn[r]
    IN /\ Dispatched(c) /\ Done(c) /\ Len(c.replies) = 1
       /\ c.replies[1].kind = "response" /\ c.replies[1].status = 200
       /\ c.replies[1].body.t = "text"
       /\ Len(c.sent) = 1 /\ ErrorCode(Response(c)) = -32603

\* C7: every JSON-RPC response carries the id of the request when the request
\* has one (0 and "" included) and the string "unknown" when it has none.
C7_Claim ==
  \A r \in DOMAIN conn :
    LET c == conn[r]
        id == Get(c.req.body, "id")
    IN (Done(c) /\ IsMcpPost(c))
         => Response(c).id = IF id # Undef THEN id ELSE Str("unknown")

\* C8: every tools/list answer is a result whose tools are the three
\* descriptors in registration order, whatever was served before, with or
\* without a credential and whatever the params.
C8_ToolsList ==
  \A r \in DOMAIN conn :
    LET c == conn[r]
    IN (Dispatched(c) /\ c.req.body.method = Str("tools/list"))
         => /\ Done(c) /\ HttpStatus(c) = 200
            /\ Response(c).error = Undef
            /\ c.upstream = <<>>
            /\ Len(Response(c).result.tools) = 3
            /\ [i \in 1..3 |-> Response(c).result.tools[i].name]
                 = <<"getCurrentWeather", "getWeatherForecast", "searchLocations">>

\* tools/list without a credential, with params, after a failed exchange
C8_Witness ==
  \E r \in DOMAIN conn :
    LET c == conn[r]
    IN /\ Done(c) /\ Dispatched(c) /\ c.req.body.method = Str("tools/list")
       /\ NoCredential(c) /\ c.req.body.params # Undef /\ prev = "error"
       /\ Len(Response(c).result.tools) = 3

\* the body is an envelope with jsonrpc "2.0" and a (non-empty) method
ValidEnvelope(body) ==
  /\ body.t = "object"
  /\ body.jsonrpc = Str("2.0")
  /\ body.method \notin {Undef, Str("")}

\* C9: a POST to /mcp is answered with HTTP 200 whenever its body is an
\* envelope with jsonrpc "2.0" and a method, whether the JSON-RPC response is
\* a result or an error; it is answered with 400 only when the body is not
\* such an envelope, and then handleMCPRequest has not been invoked.
C9_HttpStatus ==
  \A r \in DOMAIN conn :
    LET c == conn[r]
    IN /\ (IsMcpPost(c) /\ ValidEnvelope(c.req.body)) => Dispatched(c)
       /\ (Done(c) /\ IsMcpPost(c)) =>
            /\ HttpStatus(c) \in {200, 400}
            /\ ValidEnvelope(c.req.body) => HttpStatus(c) = 200
            /\ HttpStatus(c) = 400 =>
                 (~ValidEnvelope(c.req.body) /\ ~Dispatched(c))

C9_Witness ==
  \E r \in DOMAIN conn :
    LET c == conn[r]
    IN /\ Done(c) /\ IsMcpPost(c) /\ ValidEnvelope(c.req.body)
       /\ Len(c.replies) = 1 /\ Response(c).error # Undef
       /\ HttpStatus(c) = 200

\* C10: a body that is valid JSON but not an envelope with jsonrpc "2.0" and
\* a method is answered with error -32600; error -32700 is returned only for
\* a body that is not valid JSON.
C10_Claim ==
  \A r \in DOMAIN conn :
    LET c == conn[r]
    IN (Done(c) /\ IsMcpPost(c)) =>
         /\ (c.req.body.t # "invalid-json" /\ ~ValidEnvelope(c.req.body))
              => ErrorCode(Response(c)) = -32600
         /\ ErrorCode(Response(c)) = -32700 => c.req.body.t = "invalid-json"

\* positions of the characters of s that are not whitespace
NonSpaceAt(s) == {i \in 1..Len(s) : s[i] \notin {" ", "\t"}}

\* the credential the claim assigns to an Authorization header: none when the
\* header is absent, does not start with "Bearer ", or has only whitespace
\* after it; else what lies between the first and the last non-blank
\* character of the token
ExpectedCredential(h) ==
  IF ~h.present THEN Undef
  ELSE IF Len(h.chars) < 7
          \/ [i \in 1..7 |-> h.chars[i]] # <<"B", "e", "a", "r", "e", "r", " ">>
  THEN Undef
  ELSE LET token == [i \in 1..(Len(h.chars) - 7) |-> h.chars[i + 7]]
           at == NonSpaceAt(token)
       IN IF at = {} THEN Undef
          ELSE LET first == CHOOSE i \in at : \A j \in at : i <= j
                   last == CHOOSE i \in at : \A j \in at : j <= i
               IN [t |-> "key",
                   chars |-> [i \in 1..(last - first + 1) |-> token[first + i - 1]]]

\* C11: the credential of a POST to /mcp is the one the claim assigns to its
\* Authorization header (none for an absent header, another scheme, an empty
\* or blank token; else the trimmed token), and a tools/call for a registered
\* tool whose header carries no credential is answered with -32001 without
\* any upstream call.
C11_Credential ==
  \A r \in DOMAIN conn :
    LET c == conn[r]
    IN (c.pc # "idle" /\ IsMcpPost(c)) =>
         /\ c.apiKey = ExpectedCredential(c.req.auth)
         /\ (IsToolsCall(c) /\ NameIsRegistered(c)
               /\ ExpectedCredential(c.req.auth) = Undef)
              => /\ Done(c)
                 /\ ErrorCode(Response(c)) = -32001
                 /\ c.upstream = <<>> /\ c.ran = 0

\* a token that needs trimming reached the upstream call as "k1"
C11_Witness ==
  \E r \in DOMAIN conn :
    LET c == conn[r]
    IN /\ IsMcpPost(c) /\ IsToolsCall(c)
       /\ c.req.auth.chars = <<"B", "e", "a", "r", "e", "r", " ", " ", "k", "1", " ">>
       /\ Len(c.upstream) = 1
       /\ c.upstream[1].key = [t |-> "key", chars |-> <<"k", "1">>]

\* the arguments break the schema of the registered tool named by the call:
\* absent or not an object, location (query for searchLocations) missing or
\* not a string, language present and not a string
BreaksSchema(c) ==
  LET args == CallArgs(c)
  IN \/ args.t # "object"
     \/ /\ CallName(c).s \in {"getCurrentWeather", "getWeatherForecast"}
        /\ \/ args.location.t # "string"
           \/ args.language.t \notin {"string", "undefined"}
     \/ /\ CallName(c).s = "searchLocations"
        /\ args.query.t # "string"

\* C12: an exchange sends at most one upstream GET and never another one
\* after the answer, whatever the answer is; it sends none for initialize,
\* tools/list, an unknown method, an unknown tool, a missing credential or
\* arguments that fail validation; a missing credential is reported (-32001)
\* even when the arguments are invalid too.
C12_UpstreamCalls ==
  \A r \in DOMAIN conn :
    LET c == conn[r]
    IN /\ Len(c.upstream) <= 1
       /\ Len(c.replies) <= Len(c.upstream)
       /\ c.pc = "awaiting" => (Len(c.upstream) = 1 /\ c.replies = <<>>)
       /\ (Done(c) /\ c.replies # <<>>) => Len(c.upstream) = 1
       /\ ~Dispatched(c) => c.upstream = <<>>
       /\ (Dispatched(c) /\ ~IsToolsCall(c)) => c.upstream = <<>>
       /\ (IsToolsCall(c) /\ ~NameIsRegistered(c)) => c.upstream = <<>>
       /\ (IsToolsCall(c) /\ NoCredential(c)) => c.upstream = <<>>
       /\ (IsToolsCall(c) /\ NameIsRegistered(c) /\ BreaksSchema(c))
            => c.upstream = <<>>
       /\ (IsToolsCall(c) /\ NameIsRegistered(c) /\ NoCredential(c)
             /\ BreaksSchema(c))
            => (Done(c) /\ ErrorCode(Response(c)) = -32001)

\* the only GET failed and the exchange ended without a second one
C12_Witness ==
  \E r \in DOMAIN conn :
    LET c == conn[r]
    IN /\ Done(c) /\ Len(c.replies) = 1
       /\ c.replies[1].kind = "networkError"
       /\ Len(c.upstream) = 1 /\ Len(c.sent) = 1

\* C13: a tools/call for a registered tool with a credential whose arguments
\* break the tool's schema is answered with error -32602 and the message
\* "Invalid input parameters", never with -32603, and sends nothing upstream.
C13_InvalidParams ==
  \A r \in DOMAIN conn :
    LET c == conn[r]
    IN (IsToolsCall(c) /\ NameIsRegistered(c) /\ ~NoCredential(c)
          /\ BreaksSchema(c))
         => /\ Done(c)
            /\ Response(c).result = Undef
            /\ ErrorCode(Response(c)) = -32602
            /\ Response(c).error.message = "Invalid input parameters"
            /\ c.upstream = <<>>

\* searchLocations called with a credential and no arguments field
C13_Witness ==
  \E r \in DOMAIN conn :
    LET c == conn[r]
    IN /\ Done(c) /\ IsToolsCall(c) /\ ~NoCredential(c)
       /\ CallName(c) = Str("searchLocations")
       /\ CallArgs(c) = Undef
       /\ ErrorCode(Response(c)) = -32602

\* the exchange of req when it is the only one the server handles: just
\* started when replies is empty, else finished by the upstream answer
RunAlone(req, replies) ==
  IF replies = <<>> THEN Started(req, FetchStart(req))
  ELSE Finished(Started(req, FetchStart(req)), replies[1])

\* C14: whatever the other connections are doing, an exchange is in the state
\* (credential, upstream call, response) it has when it runs alone with the
\* same request and upstream answer, and the key of its upstream call is the
\* credential of its own Authorization header.
C14_Independent ==
  \A r \in DOMAIN conn :
    LET c == conn[r]
    IN c.pc # "idle" =>
         /\ Len(c.replies) <= 1
         /\ c = RunAlone(c.req, c.replies)
         /\ \A i \in 1..Len(c.upstream) :
              /\ c.upstream[i].key # Undef
              /\ c.upstream[i].key = ExpectedCredential(c.req.auth)

\* two GETs are in flight at once, sent for different credentials and
\* different requests, each with its own key
C14_Witness ==
  \E r, q \in DOMAIN conn :
    /\ r # q
    /\ conn[r].pc = "awaiting" /\ conn[q].pc = "awaiting"
    /\ conn[r].apiKey # conn[q].apiKey
    /\ conn[r].req.body.id # conn[q].req.body.id
    /\ conn[r].upstream[1].key = conn[r].apiKey
    /\ conn[q].upstream[1].key = conn[q].apiKey

\* the upstream answered the only GET of the exchange with a 2xx status
AnsweredOnce2xx(c) ==
  /\ Len(c.upstream) = 1 /\ Len(c.replies) = 1
  /\ c.replies[1].kind = "response"
  /\ c.replies[1].status \in 200..299

\* C15 (as stated): a tools/call response carries a result only if the name
\* is one of the three registered tools, a credential was supplied, the
\* arguments passed the schema, and exactly one upstream call was made and
\* answered 2xx; the result then has exactly two text entries, the second
\* being the serialized upstream payload.
C15_Claim ==
  \A r \in DOMAIN conn :
    LET c == conn[r]
    IN (Done(c) /\ IsToolsCall(c) /\ Response(c).error = Undef)
         => /\ NameIsRegistered(c)
            /\ ~NoCredential(c)
            /\ ~BreaksSchema(c)
            /\ AnsweredOnce2xx(c)
            /\ Len(Response(c).result.content) = 2
            /\ \A i \in 1..2 : Response(c).result.content[i].type = "text"
            /\ Response(c).result.content[2].text
                 = [json |-> c.replies[1].body.value]

====
